---- MODULE Spec2Model ----
(***************************************************************************)
(* binseg: the code generated by segment_binary! (src/src/lib.rs).         *)
(*                                                                         *)
(* A schema is an expected digest string and an ordered list of segment    *)
(* ranges.  from_file opens the file, reads it to the end, hashes the      *)
(* bytes, asserts the hex digest equals the expected string and builds the *)
(* holder; each segment accessor indexes the holder's bin_data with its    *)
(* range.                                                                  *)
(***************************************************************************)
EXTENDS Integers, Sequences, FiniteSets, TLC

\* ------------------------------------------------------------------ bounds
\* Longest file content explored.
MaxLen == 2
\* Largest offset a declared segment range mentions.
MaxOff == 2
\* Threads sharing one holder in the concurrent specification.
NumThreads == 2

\* ------------------------------------------------------------- value sets
\* Byte values the explored files are made of (0xDE, 0xAD: the doctest's).
Bytes == {222, 173}

RECURSIVE SeqsUpTo(_, _)
SeqsUpTo(S, n) ==
    IF n = 0 THEN {<<>>}
    ELSE LET shorter == SeqsUpTo(S, n - 1)
         IN  shorter \cup {Append(s, b) : s \in {x \in shorter : Len(x) = n - 1}, b \in S}

Files == SeqsUpTo(Bytes, MaxLen)

\* A declared range start..end (half open, Range<usize>); any start and end.
Ranges == [start : 0..MaxOff, end : 0..MaxOff]

\* The macro takes any number of segments; two are enough for "the other one".
SegIds == {1, 2}
Schemas == [SegIds -> Ranges]

\* The schemas of the concurrent specification: the file's offsets split in
\* two at some offset, as the doctest's 0x00..0x04 and 0x04..0x08.
ConcSchemas == {s \in Schemas : s[1].start = 0 /\ s[1].end = s[2].start /\ s[2].end = MaxOff}

FsStates == {"ok", "not_found", "permission_denied", "read_error"}

\* --------------------------------------------------------- hex and digest
HexDigits == <<"0", "1", "2", "3", "4", "5", "6", "7",
               "8", "9", "a", "b", "c", "d", "e", "f">>

ToUpperChar(c) ==
    CASE c = "a" -> "A" [] c = "b" -> "B" [] c = "c" -> "C"
      [] c = "d" -> "D" [] c = "e" -> "E" [] c = "f" -> "F"
      [] OTHER -> c

ToLowerChar(c) ==
    CASE c = "A" -> "a" [] c = "B" -> "b" [] c = "C" -> "c"
      [] c = "D" -> "d" [] c = "E" -> "e" [] c = "F" -> "f"
      [] OTHER -> c

ToUpper(s) == [i \in 1..Len(s) |-> ToUpperChar(s[i])]
ToLower(s) == [i \in 1..Len(s) |-> ToLowerChar(s[i])]

\* One byte as two lowercase hex characters.
HexByte(b) == <<HexDigits[(b \div 16) + 1], HexDigits[(b % 16) + 1]>>

\* The digest of a byte string.  SHA-256 itself lives in the crypto_hash
\* crate; the code here only needs a deterministic function of the bytes, so
\* it is abstracted to a one-byte running checksum (collisions are possible,
\* as they are for any digest).
RECURSIVE DigestFrom(_, _)
DigestFrom(h, bytes) ==
    IF bytes = <<>> THEN h
    ELSE DigestFrom((h * 31 + Head(bytes) + 1) % 256, Tail(bytes))

Digest(bytes) == DigestFrom(90, bytes)

\* hex_digest(Algorithm::SHA256, &bin_data): the digest, lowercase hex.
hex_digest(bytes) == HexByte(Digest(bytes))

\* Expected digest strings a schema author may have written for file f: the
\* right one, the digest of any other file, the right one in upper case, with
\* a character too many, with a character missing.
HashStrings(f) ==
    LET d == hex_digest(f)
    IN  {hex_digest(g) : g \in Files}
        \cup {ToUpper(d), d \o <<"0">>, SubSeq(d, 1, Len(d) - 1)}

\* Mutant: the comparison ignores ASCII case (eq_ignore_ascii_case).
HashesEqualIgnoreCase(actual, given) == ToLower(actual) = ToLower(given)

\* Mutant: the assertion is compiled out (debug_assert_eq! in a release build).
HashesAlwaysEqual(actual, given) == TRUE

\* assert_eq!(actual_file_hash, given_hash): String equality.
HashesEqual(actual, given) == actual = given

\* ------------------------------------------------------------ slice index
NoResult == [kind |-> "none", bytes |-> <<>>]
ViewOf(bytes) == [kind |-> "view", bytes |-> bytes]
Fault(why) == [kind |-> why, bytes |-> <<>>]

IsFault(r) == r.kind \in {"index_order_fault", "end_index_fault"}

\* Mutant: the view has the right length but starts at offset 0.
SliceIndexFromZero(data, r) ==
    IF r.start > r.end THEN Fault("index_order_fault")
    ELSE IF r.end > Len(data) THEN Fault("end_index_fault")
    ELSE ViewOf(SubSeq(data, 1, r.end - r.start))

\* Mutant: the end is clamped to the length (a get(..).unwrap_or of what is
\* there), so a range past the end yields a truncated view.
SliceIndexClamped(data, r) ==
    LET e == IF r.end > Len(data) THEN Len(data) ELSE r.end
    IN  IF r.start > e THEN Fault("index_order_fault")
        ELSE ViewOf(SubSeq(data, r.start + 1, e))

\* &data[r.start..r.end]: the order is checked first, then the end against
\* the length; otherwise the view of bytes start..end-1.
SliceIndex(data, r) ==
    IF r.start > r.end THEN Fault("index_order_fault")
    ELSE IF r.end > Len(data) THEN Fault("end_index_fault")
    ELSE ViewOf(SubSeq(data, r.start + 1, r.end))

InBounds(r, n) == r.start <= r.end /\ r.end <= n

\* ------------------------------------------------------------------ state
VARIABLES
    disk,              \* the bytes of the file at the path
    fsState,           \* what the file system does with the path
    hash_string,       \* the schema's expected digest, a sequence of characters
    segs,              \* the schema's segments: SegIds -> Ranges
    abort,             \* built with panic = "abort" (else unwinding)
    threads,           \* the threads that hold a reference to the holder
    alive,             \* the process has not been aborted
    pcLoad,            \* from_file's position
    bin_data,          \* from_file's local Vec
    given_hash,        \* from_file's local String
    actual_file_hash,  \* from_file's local String
    outcome,           \* what from_file returned
    holder,            \* the constructed $bin_ident, or NoHolder
    log,               \* the steps from_file has taken, in order
    tpc,               \* each thread's position in an accessor
    cur,               \* the segment each thread's accessor call is for
    ret,               \* what each thread's last accessor call returned
    seen,              \* what the first call of each segment's accessor returned
    again              \* a later call of each segment's accessor has returned too

vars == <<disk, fsState, hash_string, segs, abort, threads, alive, pcLoad,
          bin_data, given_hash, actual_file_hash, outcome, holder, log,
          tpc, cur, ret, seen, again>>

schemaVars == <<disk, fsState, hash_string, segs, abort, threads>>
loadVars == <<pcLoad, bin_data, given_hash, actual_file_hash, outcome, holder, log>>
callVars == <<tpc, cur, ret, seen, again>>

NoHolder == [built |-> FALSE, bin_data |-> <<>>]
Holder(data) == [built |-> TRUE, bin_data |-> data]

Pending == [kind |-> "pending", err |-> "none"]
Ok == [kind |-> "Ok", err |-> "none"]
Err(e) == [kind |-> "Err", err |-> e]
Panicked == [kind |-> "panic", err |-> "incorrect file"]

AllThreads == 1..NumThreads

\* A finished accessor call: its segment, what it returned, and whether
\* another thread was inside an accessor when it returned.
NoReturn == [seg |-> 0, result |-> NoResult, overlap |-> FALSE]
Return(s, r, o) == [seg |-> s, result |-> r, overlap |-> o]

InitRest ==
    /\ abort \in BOOLEAN
    /\ alive = TRUE
    /\ pcLoad = "open"
    /\ bin_data = <<>>
    /\ given_hash = <<>>
    /\ actual_file_hash = <<>>
    /\ outcome = Pending
    /\ holder = NoHolder
    /\ log = <<>>
    /\ tpc = [t \in threads |-> "idle"]
    /\ cur = [t \in threads |-> 0]
    /\ ret = [t \in threads |-> NoReturn]
    /\ seen = [s \in SegIds |-> NoResult]
    /\ again = [s \in SegIds |-> FALSE]

\* One thread, every schema, file, expected digest and file-system answer.
Init ==
    /\ disk \in Files
    /\ fsState \in FsStates
    /\ hash_string \in HashStrings(disk)
    /\ segs \in Schemas
    /\ threads = {1}
    /\ InitRest

\* Several threads share the holder.
InitConc ==
    /\ disk \in Files
    /\ fsState \in FsStates
    /\ hash_string \in HashStrings(disk)
    /\ segs \in ConcSchemas
    /\ threads = AllThreads
    /\ InitRest

\* -------------------------------------------------------------- from_file
\* let mut file = File::open(path)?;
Open ==
    /\ alive /\ pcLoad = "open"
    /\ log' = Append(log, "open")
    /\ IF fsState \in {"not_found", "permission_denied"}
       THEN /\ outcome' = Err(fsState)
            /\ pcLoad' = "done"
       ELSE /\ outcome' = outcome
            /\ pcLoad' = "read"
    /\ UNCHANGED <<bin_data, given_hash, actual_file_hash, holder>>
    /\ UNCHANGED <<schemaVars, alive, callVars>>

\* Mutant: the read's error is dropped (no `?`) and the load goes on with
\* what was read.
ReadIgnoringError ==
    /\ alive /\ pcLoad = "read"
    /\ log' = Append(log, "read_to_end")
    /\ bin_data' = IF fsState = "read_error" THEN <<>> ELSE disk
    /\ pcLoad' = "hash"
    /\ UNCHANGED <<outcome, given_hash, actual_file_hash, holder>>
    /\ UNCHANGED <<schemaVars, alive, callVars>>

\* let mut bin_data = Vec::new(); file.read_to_end(&mut bin_data)?;
\* On an error the function returns and the local Vec is dropped.
Read ==
    /\ alive /\ pcLoad = "read"
    /\ log' = Append(log, "read_to_end")
    /\ IF fsState = "read_error"
       THEN /\ outcome' = Err(fsState)
            /\ bin_data' = <<>>
            /\ pcLoad' = "done"
       ELSE /\ outcome' = outcome
            /\ bin_data' = disk
            /\ pcLoad' = "hash"
    /\ UNCHANGED <<given_hash, actual_file_hash, holder>>
    /\ UNCHANGED <<schemaVars, alive, callVars>>

\* Mutant: the digest is computed but the comparison is left for later, and
\* the holder is built at once.
HashWithoutCompare ==
    /\ alive /\ pcLoad = "hash"
    /\ log' = Append(log, "hash")
    /\ given_hash' = hash_string
    /\ actual_file_hash' = hex_digest(bin_data)
    /\ pcLoad' = "construct"
    /\ UNCHANGED <<bin_data, outcome, holder>>
    /\ UNCHANGED <<schemaVars, alive, callVars>>

\* let given_hash = String::from($hash_string);
\* let actual_file_hash = hex_digest(Algorithm::SHA256, &bin_data);
Hash ==
    /\ alive /\ pcLoad = "hash"
    /\ log' = Append(log, "hash")
    /\ given_hash' = hash_string
    /\ actual_file_hash' = hex_digest(bin_data)
    /\ pcLoad' = "compare"
    /\ UNCHANGED <<bin_data, outcome, holder>>
    /\ UNCHANGED <<schemaVars, alive, callVars>>

\* assert_eq!(actual_file_hash, given_hash, "incorrect file");
\* A failed assertion panics: the locals are dropped, nothing is returned, and
\* a panic = "abort" build ends the process.
Compare ==
    /\ alive /\ pcLoad = "compare"
    /\ log' = Append(log, "compare")
    /\ IF HashesEqual(actual_file_hash, given_hash)
       THEN /\ pcLoad' = "construct"
            /\ UNCHANGED <<outcome, bin_data, alive>>
       ELSE /\ pcLoad' = "done"
            /\ outcome' = Panicked
            /\ bin_data' = <<>>
            /\ alive' = ~abort
    /\ UNCHANGED <<given_hash, actual_file_hash, holder>>
    /\ UNCHANGED <<schemaVars, callVars>>

\* Mutant: the declared ranges are validated against the buffer at load time
\* and the load fails when one does not fit.
ConstructValidatingRanges ==
    /\ alive /\ pcLoad = "construct"
    /\ log' = Append(log, "construct")
    /\ IF \A s \in SegIds : InBounds(segs[s], Len(bin_data))
       THEN /\ holder' = Holder(bin_data)
            /\ outcome' = Ok
       ELSE /\ holder' = holder
            /\ outcome' = Err("invalid_range")
    /\ bin_data' = <<>>
    /\ pcLoad' = "done"
    /\ UNCHANGED <<given_hash, actual_file_hash>>
    /\ UNCHANGED <<schemaVars, alive, callVars>>

\* Ok($bin_ident { bin_data }): the Vec moves into the holder.
Construct ==
    /\ alive /\ pcLoad = "construct"
    /\ log' = Append(log, "construct")
    /\ holder' = Holder(bin_data)
    /\ bin_data' = <<>>
    /\ outcome' = Ok
    /\ pcLoad' = "done"
    /\ UNCHANGED <<given_hash, actual_file_hash>>
    /\ UNCHANGED <<schemaVars, alive, callVars>>

\* ----------------------------------------------------- segment accessors
\* pub fn $seg_ident(&self): a thread with a reference to a holder enters the
\* accessor of segment s.  Only from_file's Ok yields a holder to refer to.
AccessorCall(t, s) ==
    /\ alive /\ holder.built
    /\ tpc[t] = "idle"
    /\ tpc' = [tpc EXCEPT ![t] = "index"]
    /\ cur' = [cur EXCEPT ![t] = s]
    /\ UNCHANGED <<ret, seen, again>>
    /\ UNCHANGED <<schemaVars, alive, loadVars>>

\* What every variant of the index step records of a call of segment s by
\* thread t that returned r.
Returned(t, s, r) ==
    /\ ret' = [ret EXCEPT ![t] = Return(s, r, \E u \in threads \ {t} : tpc[u] = "index")]
    /\ seen' = IF seen[s] = NoResult THEN [seen EXCEPT ![s] = r] ELSE seen
    /\ again' = IF seen[s] = NoResult THEN again ELSE [again EXCEPT ![s] = TRUE]
    /\ tpc' = [tpc EXCEPT ![t] = IF IsFault(r) THEN "unwound" ELSE "idle"]
    /\ alive' = IF IsFault(r) /\ abort THEN FALSE ELSE alive
    /\ cur' = [cur EXCEPT ![t] = 0]

\* Mutant: the accessor takes the bytes out of the buffer (a drain of the
\* range) instead of borrowing them.
AccessorIndexDraining(t) ==
    /\ alive /\ tpc[t] = "index"
    /\ LET s == cur[t]
           d == holder.bin_data
           r == SliceIndex(d, segs[s])
       IN  /\ Returned(t, s, r)
           /\ holder' = IF IsFault(r) THEN holder
                         ELSE Holder(SubSeq(d, 1, segs[s].start)
                                     \o SubSeq(d, segs[s].end + 1, Len(d)))
    /\ UNCHANGED <<pcLoad, bin_data, given_hash, actual_file_hash, outcome, log>>
    /\ UNCHANGED schemaVars

\* Mutant: the accessor takes the buffer out of the holder before the bounds
\* check and puts it back only when the check passes.
AccessorIndexClearingOnFault(t) ==
    /\ alive /\ tpc[t] = "index"
    /\ LET s == cur[t]
           r == SliceIndex(holder.bin_data, segs[s])
       IN  /\ Returned(t, s, r)
           /\ holder' = IF IsFault(r) THEN Holder(<<>>) ELSE holder
    /\ UNCHANGED <<pcLoad, bin_data, given_hash, actual_file_hash, outcome, log>>
    /\ UNCHANGED schemaVars

\* Mutant: the range to index is kept in one slot shared by all callers, so a
\* call indexes with the range of any call in flight.
AccessorIndexSharedSlot(t) ==
    /\ alive /\ tpc[t] = "index"
    /\ \E u \in threads :
          /\ tpc[u] = "index"
          /\ Returned(t, cur[t], SliceIndex(holder.bin_data, segs[cur[u]]))
    /\ UNCHANGED <<schemaVars, loadVars>>

\* &self.bin_data[$mem_range]: the view is returned, or the index panics; the
\* panic unwinds the calling thread, or aborts the process.
AccessorIndex(t) ==
    /\ alive /\ tpc[t] = "index"
    /\ Returned(t, cur[t], SliceIndex(holder.bin_data, segs[cur[t]]))
    /\ UNCHANGED <<schemaVars, loadVars>>

\* The caller catches the unwinding panic (catch_unwind, or a joined thread
\* replaced by a new one) and goes on using the holder.
CatchUnwind(t) ==
    /\ alive /\ tpc[t] = "unwound"
    /\ tpc' = [tpc EXCEPT ![t] = "idle"]
    /\ UNCHANGED <<cur, ret, seen, again>>
    /\ UNCHANGED <<schemaVars, alive, loadVars>>

Next ==
    \/ Open
    \/ Read
    \/ Hash
    \/ Compare
    \/ Construct
    \/ \E t \in threads, s \in SegIds : AccessorCall(t, s)
    \/ \E t \in threads : AccessorIndex(t)
    \/ \E t \in threads : CatchUnwind(t)

Spec == Init /\ [][Next]_vars

SpecConc == InitConc /\ [][Next]_vars

\* ================================================================ claims
\* The bytes start..end-1 of a file, read off offset by offset.
FileSlice(file, r) == [i \in 1..(r.end - r.start) |-> file[r.start + i]]

\* What a call of a segment with range r returns on a holder of `file`, said
\* without the slice index: the file's slice when r fits, a fault when not.
AsSequential(file, r, res) ==
    IF InBounds(r, Len(file))
    THEN res.kind = "view" /\ Len(res.bytes) = r.end - r.start /\ res.bytes = FileSlice(file, r)
    ELSE IsFault(res)

\* from_file's result as a function of the file system's answer, the file and
\* the expected digest alone.
LoadResult(fs, file, expected) ==
    IF fs # "ok" THEN Err(fs)
    ELSE IF hex_digest(file) = expected THEN Ok
    ELSE Panicked

\* The order of from_file's steps.
LoadOrder == <<"open", "read_to_end", "hash", "compare", "construct">>

IsPrefix(a, b) == Len(a) <= Len(b) /\ \A i \in 1..Len(a) : a[i] = b[i]

\* Two strings differ: in length, or in some character.
Differ(a, b) == Len(a) # Len(b) \/ \E i \in 1..Len(a) : a[i] # b[i]

\* An accessor has been entered or has returned.
AccessorReached == \E t \in threads : tpc[t] # "idle" \/ ret[t].seg # 0

\* C1: when the file's digest equals the schema's expected digest, from_file
\* returns Ok with a holder, and every accessor call of a segment start..end
\* with start <= end <= file length returns a view of length end - start whose
\* bytes are bytes start..end-1 of the file, in order.
C1_MatchingDigestLoadsAndSlices ==
    /\ (pcLoad = "done" /\ fsState = "ok" /\ hex_digest(disk) = hash_string)
          => (outcome = Ok /\ holder.built)
    /\ \A t \in threads :
          (ret[t].seg # 0 /\ InBounds(segs[ret[t].seg], Len(disk)))
             => LET r == segs[ret[t].seg]
                    v == ret[t].result
                IN  /\ v.kind = "view"
                    /\ Len(v.bytes) = r.end - r.start
                    /\ \A i \in 1..(r.end - r.start) : v.bytes[i] = disk[r.start + i]

\* C1 witness: a load that returned Ok, and a call of a segment that starts
\* past offset 0 returned a non-empty view.
C1_Witness ==
    /\ outcome = Ok
    /\ \E t \in threads :
          /\ ret[t].seg # 0
          /\ segs[ret[t].seg].start > 0
          /\ ret[t].result.kind = "view"
          /\ Len(ret[t].result.bytes) > 0

\* C2: a readable file whose computed digest differs from the expected digest
\* makes from_file fail with the integrity panic; it never returns Ok, no
\* holder exists over bytes that did not pass the comparison, and no accessor
\* is entered.
C2_MismatchNeverYieldsHolder ==
    /\ (pcLoad = "done" /\ fsState = "ok" /\ hex_digest(disk) # hash_string)
          => (outcome = Panicked /\ ~holder.built)
    /\ (hex_digest(disk) # hash_string)
          => (outcome # Ok /\ ~holder.built /\ ~AccessorReached)
    /\ holder.built => hex_digest(holder.bin_data) = hash_string

\* C2 witness: a load of a readable file that ended in the integrity panic.
C2_Witness ==
    /\ pcLoad = "done" /\ fsState = "ok"
    /\ hex_digest(disk) # hash_string
    /\ outcome = Panicked

\* C3: when the file cannot be opened or read, from_file returns Err naming
\* the cause, does not crash, builds no holder, and never reaches the digest
\* or the assertion, whatever the expected digest.
C3_IoFailureIsErr ==
    fsState # "ok" =>
        /\ alive
        /\ ~holder.built
        /\ outcome.kind \in {"pending", "Err"}
        /\ actual_file_hash = <<>> /\ given_hash = <<>>
        /\ \A i \in 1..Len(log) : log[i] \notin {"hash", "compare", "construct"}
        /\ pcLoad = "done" => outcome = Err(fsState)

\* C3 witness: a read that failed and a load that returned Err, on a file
\* whose digest the schema has right.
C3_Witness ==
    /\ fsState = "read_error" /\ pcLoad = "done"
    /\ outcome = Err("read_error")
    /\ hash_string = hex_digest(disk)

\* C4: a call of a segment whose end or start is past the buffer's length, or
\* whose start is past its end, never returns a view: every such call, the
\* first and each later one, faults.
C4_OutOfRangeAlwaysFaults ==
    /\ \A t \in threads :
          (ret[t].seg # 0 /\ ~InBounds(segs[ret[t].seg], Len(holder.bin_data)))
             => (IsFault(ret[t].result) /\ ret[t].result.bytes = <<>>)
    /\ \A s \in SegIds :
          (seen[s] # NoResult /\ ~InBounds(segs[s], Len(holder.bin_data)))
             => IsFault(seen[s])

\* C4 witness: a segment that ends past the buffer was called twice, and the
\* call faulted.
C4_Witness ==
    \E t \in threads :
        /\ ret[t].seg # 0
        /\ segs[ret[t].seg].start <= segs[ret[t].seg].end
        /\ segs[ret[t].seg].start < Len(holder.bin_data)
        /\ segs[ret[t].seg].end > Len(holder.bin_data)
        /\ again[ret[t].seg]
        /\ IsFault(ret[t].result)

\* C5: every call of a segment's accessor on a holder returns what the first
\* call of that accessor returned, whatever was called in between.
C5_RepeatedCallsAgree ==
    \A t \in threads : ret[t].seg # 0 => ret[t].result = seen[ret[t].seg]

\* C5 witness: a segment's accessor returned a non-empty view a second time,
\* the other segment's accessor having been called too.
C5_Witness ==
    \E t \in threads :
        /\ ret[t].seg # 0
        /\ again[ret[t].seg]
        /\ \A s \in SegIds : seen[s] # NoResult
        /\ ret[t].result.kind = "view"
        /\ Len(ret[t].result.bytes) > 0

C6_Order ==
    /\ IsPrefix(log, LoadOrder)
    /\ holder.built <=> log = LoadOrder
    /\ AccessorReached
          => (log = LoadOrder /\ holder.built /\ actual_file_hash = given_hash)

C6_NoWayBack == holder.built => (holder'.built /\ log' = log)

\* C6: from_file's steps happen in the order open, read to end, hash, compare,
\* construct, each at most once; an accessor is entered only after the
\* comparison succeeded and the holder was built; and a built holder stays
\* built, with no further verification step.
C6_VerifiedOnceBeforeAccess == []C6_Order /\ [][C6_NoWayBack]_vars

\* C6 witness: all five steps were taken, an accessor call has returned and
\* the same thread is inside the next one.
C6_Witness ==
    /\ log = LoadOrder
    /\ \E t \in threads : ret[t].seg # 0 /\ tpc[t] = "index"

C7_BufferIsFile == holder.built => holder.bin_data = disk

C7_Frame == disk' = disk /\ (holder.built => holder' = holder)

\* C7: the holder's buffer is the file content read at load time and no step
\* changes it, whether an accessor returns a view or faults; no step of the
\* load changes the file.
C7_BufferNeverChanges == []C7_BufferIsFile /\ [][C7_Frame]_vars

\* C7 witness: one accessor has faulted, the other has returned a non-empty
\* view, and the buffer is the file's content.
C7_Witness ==
    /\ holder.built /\ holder.bin_data = disk
    /\ \E s \in SegIds : IsFault(seen[s])
    /\ \E s \in SegIds : seen[s].kind = "view" /\ Len(seen[s].bytes) > 0

\* C8: with several threads calling accessors of one holder, in every
\* interleaving every call returns what a call on its own would return, and
\* the buffer stays the file's content.
C8_ConcurrentCallsAsSequential ==
    /\ \A t \in threads :
          ret[t].seg # 0 => AsSequential(disk, segs[ret[t].seg], ret[t].result)
    /\ holder.built => holder.bin_data = disk

\* C8 witness: two threads have each had a call of a different segment
\* return a non-empty view, one of them while the other was inside an accessor.
C8_Witness ==
    \E t \in threads, u \in threads :
        /\ t # u
        /\ ret[t].seg # 0 /\ ret[u].seg # 0 /\ ret[t].seg # ret[u].seg
        /\ ret[t].overlap
        /\ ret[t].result.kind = "view" /\ Len(ret[t].result.bytes) > 0
        /\ ret[u].result.kind = "view" /\ Len(ret[u].result.bytes) > 0

\* C9: from_file's result is a function of the file and the expected digest
\* alone, whatever ranges the schema declares; a fault comes only from a call
\* of a segment that does not fit, and after it the calls of a segment that
\* fits still return the file's slice.
C9_RangesPlayNoPartInLoad ==
    /\ pcLoad = "done" => outcome = LoadResult(fsState, disk, hash_string)
    /\ pcLoad # "done" => outcome = Pending
    /\ \A t \in threads :
          ret[t].seg # 0 => AsSequential(disk, segs[ret[t].seg], ret[t].result)
    /\ \A s \in SegIds :
          seen[s] # NoResult => AsSequential(disk, segs[s], seen[s])

\* C9 witness: a schema with a segment that does not fit loaded, that
\* segment's call faulted, and a later call of the other segment, whose range
\* overlaps it, returned a non-empty view.
C9_Witness ==
    /\ outcome = Ok
    /\ threads = {1}
    /\ \E s \in SegIds :
          /\ ~InBounds(segs[s], Len(disk))
          /\ IsFault(seen[s])
          /\ ret[1].seg # 0 /\ ret[1].seg # s
          /\ segs[ret[1].seg].start < segs[s].end /\ segs[s].start < segs[ret[1].seg].end
          /\ ret[1].result.kind = "view" /\ Len(ret[1].result.bytes) > 0

\* C10: the comparison is an exact match of the computed lowercase hex digest
\* and the expected string: when they differ in length or in any character,
\* be it only in letter case, the load panics and builds no holder; when they
\* do not, it returns Ok.
C10_ExactCaseSensitiveMatch ==
    (pcLoad = "done" /\ fsState = "ok") =>
        /\ actual_file_hash = ToLower(actual_file_hash)
        /\ given_hash = hash_string
        /\ Differ(hash_string, actual_file_hash) => (outcome = Panicked /\ ~holder.built)
        /\ ~Differ(hash_string, actual_file_hash) => (outcome = Ok /\ holder.built)

\* C10 witness: the expected string is the computed digest in upper case, and
\* the load panicked.
C10_Witness ==
    /\ pcLoad = "done" /\ fsState = "ok"
    /\ hash_string # actual_file_hash
    /\ ToLower(hash_string) = actual_file_hash
    /\ outcome = Panicked

====
